---- MODULE Spec2Model ----
(***************************************************************************)
(* Face2XCli: bulk PNG upscaler.  The model covers the batch driver        *)
(* (src/index.js: processBulkImages, processImage) and the tiling /        *)
(* stitching / multi-pass engine (src/utils.js: multiUpscale,              *)
(* upscaleFrame, processAlphaChannel, runSuperRes).                        *)
(*                                                                         *)
(* An ndarray is a record [shape |-> <<w, h>>, data |-> sequence of        *)
(* pixels]; a pixel is the tuple <<r, g, b, a>> of the four interleaved    *)
(* channels, so element (x, y) of an array of shape [w, h, 4] with the     *)
(* default strides [h*4, 4, 1] is data[x*h + y + 1].                       *)
(***************************************************************************)
EXTENDS Integers, Sequences, FiniteSets, TLC

\* ---------------------------------------------------------------- constants
CHUNK_SIZE == 1024
PAD_SIZE == 32

\* ------------------------------------------------------------------- bounds
\* files in the input directory
MaxFiles == 2
\* passes requested (the prompt offers 1, 2, 3; multiUpscale accepts any)
MaxFactor == 3
\* small images have sides 1..MaxSmall
MaxSmall == 2
\* large images have one side in CHUNK_SIZE+1 .. CHUNK_SIZE+MaxOver
MaxOver == 1
\* pixels of the final canvas an image may need
MaxOutPixels == 20000
\* sides swept by the tile-grid specification
MaxDim == 2100

\* ------------------------------------------------------------------ helpers
Max(a, b) == IF a > b THEN a ELSE b

Min(a, b) == IF a < b THEN a ELSE b

Ceil(a, b) == (a + b - 1) \div b

Floor(a, b) == a \div b

RECURSIVE Pow2(_)
Pow2(n) == IF n <= 0 THEN 1 ELSE 2 * Pow2(n - 1)

\* ------------------------------------------------- upscaleFrame: the tile grid
\* utils.js:71-78
Frame(shape) ==
  LET inImgW == shape[1]
      inImgH == shape[2]
      nChunksW == Ceil(inImgW, CHUNK_SIZE)
      nChunksH == Ceil(inImgH, CHUNK_SIZE)
  IN [inImgW |-> inImgW, inImgH |-> inImgH,
      outImgW |-> inImgW * 2, outImgH |-> inImgH * 2,
      nChunksW |-> nChunksW, nChunksH |-> nChunksH,
      chunkW |-> Floor(inImgW, nChunksW), chunkH |-> Floor(inImgH, nChunksH)]

\* utils.js:86, 89: Math.max(0, pos - PAD_SIZE)
StartNoPad(pos) == Max(0, pos)

Start(pos) == Max(0, pos - PAD_SIZE)

\* utils.js:87, 90: the padded extent, clipped to the image
InLenUnclipped(start, chunk, dim) == chunk + PAD_SIZE * 2

InLen(start, chunk, dim) ==
  IF start + chunk + PAD_SIZE * 2 > dim THEN dim - start ELSE chunk + PAD_SIZE * 2

\* utils.js:88, 91
OutLen(pos, chunk, dim) == 2 * (Min(dim, pos + chunk) - pos)

\* utils.js:83-91
TileDescriptor(f, ti, tj) ==
  LET x == tj * f.chunkW
      y == ti * f.chunkH
      yStart == Start(y)
      xStart == Start(x)
  IN [i |-> ti, j |-> tj, x |-> x, y |-> y,
      xStart |-> xStart, yStart |-> yStart,
      inW |-> InLen(xStart, f.chunkW, f.inImgW),
      inH |-> InLen(yStart, f.chunkH, f.inImgH),
      outW |-> OutLen(x, f.chunkW, f.inImgW),
      outH |-> OutLen(y, f.chunkH, f.inImgH)]

\* utils.js:100: the view outArr.lo(x*2, y*2, 0).hi(outW, outH, 4)
OutRegion(t) == [x2 |-> t.x * 2, y2 |-> t.y * 2, w2 |-> t.outW, h2 |-> t.outH]

\* utils.js:81: the row loop runs while i < nChunksH (the column loop, line 82,
\* is folded into the step to the next tile)
TileLoopCondShort(ti, f) == ti < f.nChunksH - 1

TileLoopCond(ti, f) == ti < f.nChunksH

\* utils.js:81-82: the tile after (i, j), row-major
NextTile(ti, tj, f) ==
  IF tj + 1 < f.nChunksW THEN <<ti, tj + 1>> ELSE <<ti + 1, 0>>

\* ------------------------------------------------------------------- ndarray
ZeroPixel == <<0, 0, 0, 0>>

NoArray == [shape |-> <<0, 0>>, data |-> <<>>]

\* ndarray get(x, y, .) on default strides; a read outside the typed array
\* yields undefined, which a Uint8Array stores as 0
NdGet(arr, x, y) ==
  LET k == x * arr.shape[2] + y + 1
  IN IF k >= 1 /\ k <= arr.shape[1] * arr.shape[2] THEN arr.data[k] ELSE ZeroPixel

\* a typed array's contents as a sequence, indexed from 1
Flat(f) == f \o <<>>

\* utils.js:80: ndarray(new Uint8Array(outImgW * outImgH * 4), [outImgW, outImgH, 4])
NewCanvas(f) ==
  [shape |-> <<f.outImgW, f.outImgH>>,
   data |-> Flat([k \in 1..(f.outImgW * f.outImgH) |-> ZeroPixel])]

\* utils.js:93-95: subArr, the contiguous copy of imageArray.lo(xStart, yStart, 0).hi(inW, inH, 4)
ExtractChunk(src, t) ==
  [shape |-> <<t.inW, t.inH>>,
   data |-> Flat([k \in 1..(t.inW * t.inH) |->
               NdGet(src, t.xStart + ((k - 1) \div t.inH), t.yStart + ((k - 1) % t.inH))])]

\* ------------------------------------------------------- the inference engine
\* runSuperRes yields no result (utils.js:56, 60-64: sr stays undefined)
Undefined == [defined |-> FALSE, dims |-> <<0, 0>>, data |-> <<>>]

\* superSession.run(feeds).output for the engines considered (utils.js:58-59):
\*   "double": every pixel of the chunk replicated into a 2x2 block
\*   "fill":   the right shape, every channel 9
\*   "echo":   the chunk returned as submitted, i.e. of shape (w, h, 4)
Engines == {"double", "fill", "echo"}

EngineRun(e, sub) ==
  LET w == sub.shape[1]
      h == sub.shape[2]
  IN CASE e = "double" ->
            [defined |-> TRUE, dims |-> <<2 * w, 2 * h>>,
             data |-> Flat([k \in 1..(4 * w * h) |->
                         NdGet(sub, ((k - 1) \div (2 * h)) \div 2, ((k - 1) % (2 * h)) \div 2)])]
       [] e = "fill" ->
            [defined |-> TRUE, dims |-> <<2 * w, 2 * h>>,
             data |-> Flat([k \in 1..(4 * w * h) |-> <<9, 9, 9, 9>>])]
       [] OTHER ->
            [defined |-> TRUE, dims |-> <<w, h>>, data |-> sub.data]

\* utils.js:98: chunkData.data throws a TypeError when chunkData is undefined
ThrowsNever(cd) == FALSE

Throws(cd) == ~cd.defined

\* utils.js:98-99: chunkArr = ndarray(chunkData.data, chunkData.dims) and the view
\* chunkArr.lo((x - xStart) * 2, (y - yStart) * 2, 0).hi(outW, outH, 4); lo and hi
\* check no bounds, the strides are those of chunkData.dims
ChunkSliceGet(cd, t, a, b) ==
  LET k == ((t.x - t.xStart) * 2 + a) * cd.dims[2] + ((t.y - t.yStart) * 2 + b) + 1
  IN IF k >= 1 /\ k <= cd.dims[1] * cd.dims[2] THEN cd.data[k] ELSE ZeroPixel

InRegion(r, X, Y) ==
  /\ r.x2 <= X /\ X < r.x2 + r.w2
  /\ r.y2 <= Y /\ Y < r.y2 + r.h2

\* utils.js:103: ops.assign(outSlice.pick(null, null, [0, 1, 2]), chunkSlice.pick(...)).
\* pick() fixes an axis only for a number argument, so the array [0, 1, 2] leaves
\* the channel axis whole and the assignment copies all four channels.
AssignChunk(cv, cd, t) ==
  LET r == OutRegion(t)
      h == cv.shape[2]
  IN [cv EXCEPT !.data = Flat(
        [k \in 1..(cv.shape[1] * cv.shape[2]) |->
           LET X == (k - 1) \div h
               Y == (k - 1) % h
           IN IF InRegion(r, X, Y)
                THEN ChunkSliceGet(cd, t, X - r.x2, Y - r.y2)
                ELSE cv.data[k]])]

\* utils.js:106-109, 116-129: processAlphaChannel over the whole outSlice, reading
\* inSlice.lo(x - xStart, y - yStart, 0), a view of the pass's source image
ProcessAlphaChannel(cv, src, t) ==
  LET r == OutRegion(t)
      h == cv.shape[2]
  IN [cv EXCEPT !.data = Flat(
        [k \in 1..(cv.shape[1] * cv.shape[2]) |->
           LET X == (k - 1) \div h
               Y == (k - 1) % h
               inX == Floor(X - r.x2, 2)
               inY == Floor(Y - r.y2, 2)
           IN IF InRegion(r, X, Y)
                THEN [cv.data[k] EXCEPT ![4] = NdGet(src, t.x + inX, t.y + inY)[4]]
                ELSE cv.data[k]])]

\* ------------------------------------------------------------ decoded images
\* channel values of pixel (x, y) of a decoded file: all in 1..255, the four
\* channels of a pixel and the pixels of a neighbourhood pairwise different
Pixel(x, y) ==
  <<1 + (x % 255), 1 + ((3 * y + 100) % 255),
    1 + ((x + y + 50) % 255), 1 + ((2 * x + 5 * y + 200) % 255)>>

\* index.js:18-22: ndarray(new Uint8Array(data), [info.width, info.height, info.channels])
DecodedImage(w, h) ==
  [shape |-> <<w, h>>,
   data |-> Flat([k \in 1..(w * h) |-> Pixel((k - 1) \div h, (k - 1) % h)])]

Small == 1..MaxSmall

Large == (CHUNK_SIZE + 1)..(CHUNK_SIZE + MaxOver)

ImageDims == (Small \X Small) \cup (Large \X {1}) \cup ({1} \X Large)

\* --------------------------------------------------------------------- state
VARIABLES
  pc,            \* position of the driver: "start", "loop", "pass", "tile", "await",
                 \* "stitch", "encode", "done", "aborted" ("geom", "geomdone": tile-grid sweep)
  upscaleFactor, \* processBulkImages' argument
  engine,        \* the model behind superSession
  nFiles,        \* pngFiles.length
  index,         \* the for loop's index over pngFiles
  successCount,  \* index.js:70
  results,       \* what processImage returned, per call
  attempts,      \* the files processImage was called with, in call order
  outputs,       \* the files for which toFile(outputPath) completed
  imageArray,    \* processImage's decoded image
  outArr,        \* multiUpscale's outArr
  s,             \* multiUpscale's pass counter
  frame,         \* upscaleFrame's dimensions and grid (utils.js:71-78)
  canvas,        \* upscaleFrame's outArr
  i,             \* upscaleFrame's row index
  j,             \* upscaleFrame's column index
  tile,          \* the current tile's x, y, xStart, yStart, inW, inH, outW, outH
  subArr,        \* the chunk submitted to runSuperRes
  chunkData,     \* what runSuperRes returned
  calls,         \* superSession.run calls made for the current image
  regions,       \* the outSlice regions written so far in the current pass
  doneTiles      \* per finished pass of the current image, the tiles it stitched

vars == <<pc, upscaleFactor, engine, nFiles, index, successCount, results, attempts,
          outputs, imageArray, outArr, s, frame, canvas, i, j, tile, subArr, chunkData,
          calls, regions, doneTiles>>

NoFrame ==
  [inImgW |-> 0, inImgH |-> 0, outImgW |-> 0, outImgH |-> 0,
   nChunksW |-> 0, nChunksH |-> 0, chunkW |-> 0, chunkH |-> 0]

NoTile ==
  [i |-> 0, j |-> 0, x |-> 0, y |-> 0, xStart |-> 0, yStart |-> 0,
   inW |-> 0, inH |-> 0, outW |-> 0, outH |-> 0]

\* the locals of processImage, multiUpscale and upscaleFrame outside any call
NoImage ==
  /\ imageArray' = NoArray
  /\ outArr' = NoArray
  /\ s' = 0
  /\ frame' = NoFrame
  /\ canvas' = NoArray
  /\ i' = 0
  /\ j' = 0
  /\ tile' = NoTile
  /\ subArr' = NoArray
  /\ chunkData' = Undefined
  /\ calls' = 0
  /\ regions' = <<>>
  /\ doneTiles' = <<>>

Init ==
  /\ pc = "start"
  /\ upscaleFactor \in 0..MaxFactor
  /\ engine \in Engines
  /\ nFiles \in 0..MaxFiles
  /\ index = 0
  /\ successCount = 0
  /\ results = <<>>
  /\ attempts = <<>>
  /\ outputs = {}
  /\ imageArray = NoArray
  /\ outArr = NoArray
  /\ s = 0
  /\ frame = NoFrame
  /\ canvas = NoArray
  /\ i = 0
  /\ j = 0
  /\ tile = NoTile
  /\ subArr = NoArray
  /\ chunkData = Undefined
  /\ calls = 0
  /\ regions = <<>>
  /\ doneTiles = <<>>

\* ---------------------------------------------------------- processBulkImages
\* index.js:51-68: mkdir, readdir, initializeONNX succeed
InitializeONNX ==
  /\ pc = "start"
  /\ pc' = "loop"
  /\ UNCHANGED <<upscaleFactor, engine, nFiles, index, successCount, results, attempts,
                 outputs, imageArray, outArr, s, frame, canvas, i, j, tile, subArr,
                 chunkData, calls, regions, doneTiles>>

\* index.js:82-84: one of them throws, the outer catch ends the run
InitFails ==
  /\ pc = "start"
  /\ pc' = "aborted"
  /\ UNCHANGED <<upscaleFactor, engine, nFiles, index, successCount, results, attempts,
                 outputs, imageArray, outArr, s, frame, canvas, i, j, tile, subArr,
                 chunkData, calls, regions, doneTiles>>

\* index.js:41-44: processImage catches every error and returns false, so the
\* for loop of processBulkImages goes on with the next file
AfterFailureAbort == "done"

AfterFailure == "loop"

\* index.js:74-76 after processImage returned `success`
Returned(success) ==
  /\ results' = Append(results, success)
  /\ successCount' = IF success THEN successCount + 1 ELSE successCount
  /\ index' = index + 1
  /\ pc' = IF success THEN "loop" ELSE AfterFailure
  /\ NoImage

\* index.js:71-74, 18-24: the next file is read and decoded, multiUpscale is called
Decode ==
  /\ pc = "loop"
  /\ index < nFiles
  /\ \E d \in ImageDims :
       /\ d[1] * d[2] * Pow2(2 * upscaleFactor) <= MaxOutPixels
       /\ imageArray' = DecodedImage(d[1], d[2])
       /\ outArr' = DecodedImage(d[1], d[2])
  /\ attempts' = Append(attempts, index)
  /\ s' = 0
  /\ pc' = "pass"
  /\ UNCHANGED <<upscaleFactor, engine, nFiles, index, successCount, results, outputs,
                 frame, canvas, i, j, tile, subArr, chunkData, calls, regions, doneTiles>>

\* index.js:18-20 throw (unreadable or corrupt file)
DecodeFails ==
  /\ pc = "loop"
  /\ index < nFiles
  /\ attempts' = Append(attempts, index)
  /\ Returned(FALSE)
  /\ UNCHANGED <<upscaleFactor, engine, nFiles, outputs>>

\* index.js:79-81: the loop is over, the summary is printed
Report ==
  /\ pc = "loop"
  /\ index >= nFiles
  /\ pc' = "done"
  /\ UNCHANGED <<upscaleFactor, engine, nFiles, index, successCount, results, attempts,
                 outputs, imageArray, outArr, s, frame, canvas, i, j, tile, subArr,
                 chunkData, calls, regions, doneTiles>>

\* --------------------------------------------------------------- multiUpscale
\* utils.js:134
PassLoopCondInclusive(k, n) == k <= n

PassLoopCond(k, n) == k < n

\* utils.js:134-135, 71-80: the next pass starts, upscaleFrame(outArr) is entered
StartPass ==
  /\ pc = "pass"
  /\ PassLoopCond(s, upscaleFactor)
  /\ frame' = Frame(outArr.shape)
  /\ canvas' = NewCanvas(Frame(outArr.shape))
  /\ i' = 0
  /\ j' = 0
  /\ regions' = <<>>
  /\ pc' = "tile"
  /\ UNCHANGED <<upscaleFactor, engine, nFiles, index, successCount, results, attempts,
                 outputs, imageArray, outArr, s, tile, subArr, chunkData, calls, doneTiles>>

\* utils.js:139 and index.js:24: multiUpscale returns outArr
MultiUpscaleReturns ==
  /\ pc = "pass"
  /\ ~PassLoopCond(s, upscaleFactor)
  /\ pc' = "encode"
  /\ UNCHANGED <<upscaleFactor, engine, nFiles, index, successCount, results, attempts,
                 outputs, imageArray, outArr, s, frame, canvas, i, j, tile, subArr,
                 chunkData, calls, regions, doneTiles>>

\* --------------------------------------------------------------- upscaleFrame
\* utils.js:81-97, 53-58: the tile is described, its chunk copied and submitted
Extract ==
  /\ pc = "tile"
  /\ TileLoopCond(i, frame)
  /\ tile' = TileDescriptor(frame, i, j)
  /\ subArr' = ExtractChunk(outArr, TileDescriptor(frame, i, j))
  /\ calls' = calls + 1
  /\ pc' = "await"
  /\ UNCHANGED <<upscaleFactor, engine, nFiles, index, successCount, results, attempts,
                 outputs, imageArray, outArr, s, frame, canvas, i, j, chunkData, regions,
                 doneTiles>>

\* utils.js:58-59, 64: the engine answers
InferenceResolves ==
  /\ pc = "await"
  /\ chunkData' = EngineRun(engine, subArr)
  /\ pc' = "stitch"
  /\ UNCHANGED <<upscaleFactor, engine, nFiles, index, successCount, results, attempts,
                 outputs, imageArray, outArr, s, frame, canvas, i, j, tile, subArr, calls,
                 regions, doneTiles>>

\* utils.js:60-64: the engine throws, runSuperRes logs and returns undefined
InferenceRejects ==
  /\ pc = "await"
  /\ chunkData' = Undefined
  /\ pc' = "stitch"
  /\ UNCHANGED <<upscaleFactor, engine, nFiles, index, successCount, results, attempts,
                 outputs, imageArray, outArr, s, frame, canvas, i, j, tile, subArr, calls,
                 regions, doneTiles>>

\* utils.js:98 throws; index.js:41-44 catches and returns false
StitchThrows ==
  /\ pc = "stitch"
  /\ Throws(chunkData)
  /\ Returned(FALSE)
  /\ UNCHANGED <<upscaleFactor, engine, nFiles, attempts, outputs>>

\* utils.js:98-110: crop, copy, alpha, and on to the next tile
Stitch ==
  /\ pc = "stitch"
  /\ ~Throws(chunkData)
  /\ canvas' = ProcessAlphaChannel(AssignChunk(canvas, chunkData, tile), outArr, tile)
  /\ regions' = Append(regions, OutRegion(tile))
  /\ i' = NextTile(i, j, frame)[1]
  /\ j' = NextTile(i, j, frame)[2]
  /\ pc' = "tile"
  /\ UNCHANGED <<upscaleFactor, engine, nFiles, index, successCount, results, attempts,
                 outputs, imageArray, outArr, s, frame, tile, subArr, chunkData, calls,
                 doneTiles>>

\* utils.js:113, 135: upscaleFrame returns its canvas, multiUpscale stores it
FrameReturns ==
  /\ pc = "tile"
  /\ ~TileLoopCond(i, frame)
  /\ outArr' = canvas
  /\ s' = s + 1
  /\ doneTiles' = Append(doneTiles, Len(regions))
  /\ pc' = "pass"
  /\ UNCHANGED <<upscaleFactor, engine, nFiles, index, successCount, results, attempts,
                 outputs, imageArray, frame, canvas, i, j, tile, subArr, chunkData, calls,
                 regions>>

\* ------------------------------------------------------ processImage: encoding
\* index.js:26-40: the PNG is written, processImage returns true
Encode ==
  /\ pc = "encode"
  /\ outputs' = outputs \cup {index}
  /\ Returned(TRUE)
  /\ UNCHANGED <<upscaleFactor, engine, nFiles, attempts>>

\* index.js:29-37 throw
EncodeFails ==
  /\ pc = "encode"
  /\ Returned(FALSE)
  /\ UNCHANGED <<upscaleFactor, engine, nFiles, attempts, outputs>>

Next ==
  \/ InitializeONNX
  \/ InitFails
  \/ Decode
  \/ DecodeFails
  \/ Report
  \/ StartPass
  \/ MultiUpscaleReturns
  \/ Extract
  \/ InferenceResolves
  \/ InferenceRejects
  \/ StitchThrows
  \/ Stitch
  \/ FrameReturns
  \/ Encode
  \/ EncodeFails

Spec == Init /\ [][Next]_vars

\* ------------------------------------------------------- the tile-grid sweep
\* upscaleFrame's grid arithmetic alone (utils.js:71-91, 100), over image sides up
\* to MaxDim: the loop of lines 81-82 is walked without pixel data

\* the worked example's image
ExampleDims == <<2000, 1500>>

GeomDims ==
  {<<w, h>> : w \in 1..MaxDim, h \in Small}
    \cup {<<w, h>> : w \in Small, h \in 1..MaxDim}
    \cup {<<d, d>> : d \in 1..MaxDim}
    \cup {ExampleDims}

InitGeom ==
  /\ pc = "geom"
  /\ \E d \in GeomDims : frame = Frame(d)
  /\ upscaleFactor = 1
  /\ engine = "double"
  /\ nFiles = 1
  /\ index = 0
  /\ successCount = 0
  /\ results = <<>>
  /\ attempts = <<>>
  /\ outputs = {}
  /\ imageArray = NoArray
  /\ outArr = NoArray
  /\ s = 0
  /\ canvas = NoArray
  /\ i = 0
  /\ j = 0
  /\ tile = NoTile
  /\ subArr = NoArray
  /\ chunkData = Undefined
  /\ calls = 0
  /\ regions = <<>>
  /\ doneTiles = <<>>

\* utils.js:81-91, 100: one iteration of the loop body's arithmetic
GeomTile ==
  /\ pc = "geom"
  /\ TileLoopCond(i, frame)
  /\ tile' = TileDescriptor(frame, i, j)
  /\ regions' = Append(regions, OutRegion(TileDescriptor(frame, i, j)))
  /\ i' = NextTile(i, j, frame)[1]
  /\ j' = NextTile(i, j, frame)[2]
  /\ UNCHANGED <<pc, upscaleFactor, engine, nFiles, index, successCount, results,
                 attempts, outputs, imageArray, outArr, s, frame, canvas, subArr,
                 chunkData, calls, doneTiles>>

\* utils.js:81, 113: the loop ends
GeomDone ==
  /\ pc = "geom"
  /\ ~TileLoopCond(i, frame)
  /\ pc' = "geomdone"
  /\ UNCHANGED <<upscaleFactor, engine, nFiles, index, successCount, results, attempts,
                 outputs, imageArray, outArr, s, frame, canvas, i, j, tile, subArr,
                 chunkData, calls, regions, doneTiles>>

NextGeom ==
  \/ GeomTile
  \/ GeomDone

SpecGeom == InitGeom /\ [][NextGeom]_vars

\* --------------------------------------------------------------------- claims
\* `tile` describes a tile of the current pass
TileValid ==
  \/ pc \in {"await", "stitch"}
  \/ pc \in {"geom", "geomdone"} /\ Len(regions) > 0

\* every tile of the current pass has been stitched
PassStitched ==
  \/ pc = "geomdone"
  \/ pc = "tile" /\ i >= frame.nChunksH

RECURSIVE AreaSum(_)
AreaSum(rs) ==
  IF rs = <<>> THEN 0 ELSE Head(rs).w2 * Head(rs).h2 + AreaSum(Tail(rs))

RectsDisjoint(a, b) ==
  \/ a.x2 + a.w2 <= b.x2
  \/ b.x2 + b.w2 <= a.x2
  \/ a.y2 + a.h2 <= b.y2
  \/ b.y2 + b.h2 <= a.y2

RectInside(r, w, h) ==
  /\ 0 <= r.x2 /\ r.w2 >= 0 /\ r.x2 + r.w2 <= w
  /\ 0 <= r.y2 /\ r.h2 >= 0 /\ r.y2 + r.h2 <= h

PairwiseDisjoint(rs) ==
  \A a, b \in 1..Len(rs) : a < b => RectsDisjoint(rs[a], rs[b])

\* rectangles inside the canvas that are pairwise disjoint cover it exactly when
\* their areas add up to the canvas' area
ExactCover(rs, w, h) ==
  /\ \A a \in 1..Len(rs) : RectInside(rs[a], w, h)
  /\ PairwiseDisjoint(rs)
  /\ AreaSum(rs) = w * h

\* C1: once every tile of a pass is done, the output rectangles
\* [2x, 2x+outW) x [2y, 2y+outH) are pairwise disjoint and their union is exactly
\* [0, 2W) x [0, 2H)
C1_TilesCoverCanvas ==
  PassStitched => ExactCover(regions, 2 * frame.inImgW, 2 * frame.inImgH)

\* what the grid does keep for every image: the rectangles written so far are
\* pairwise disjoint and lie inside the canvas
TilesDisjointInsideCanvas ==
  /\ \A a \in 1..Len(regions) : RectInside(regions[a], 2 * frame.inImgW, 2 * frame.inImgH)
  /\ PairwiseDisjoint(regions)

\* coordinates of element k of an array with h rows per column
PixX(k, h) == (k - 1) \div h

PixY(k, h) == (k - 1) % h

\* C2: after a pass, every output pixel (x, y) has the alpha of the source pixel
\* (floor(x/2), floor(y/2)), whatever the engine returned
C2_AlphaLaw ==
  (pc = "tile" /\ i >= frame.nChunksH) =>
    \A k \in 1..(frame.outImgW * frame.outImgH) :
      canvas.data[k][4] =
        NdGet(outArr, PixX(k, frame.outImgH) \div 2, PixY(k, frame.outImgH) \div 2)[4]

\* C3: with the identity-doubling engine, R, G and B of every output pixel (x, y)
\* after a pass are those of the source pixel (floor(x/2), floor(y/2))
C3_RgbReplication ==
  (pc = "tile" /\ i >= frame.nChunksH /\ engine = "double") =>
    \A k \in 1..(frame.outImgW * frame.outImgH) :
      LET src == NdGet(outArr, PixX(k, frame.outImgH) \div 2, PixY(k, frame.outImgH) \div 2)
      IN /\ canvas.data[k][1] = src[1]
         /\ canvas.data[k][2] = src[2]
         /\ canvas.data[k][3] = src[3]

\* C4: when runSuperRes yields no result for a tile, the next step ends the image:
\* processImage returns false, the driver is back at its loop (no tile or pass of
\* the image follows, so no further inference call), and no output file is written
C4_InferenceFailureFailsImage ==
  [][(pc = "stitch" /\ ~chunkData.defined) =>
       /\ results' = Append(results, FALSE)
       /\ successCount' = successCount
       /\ index' = index + 1
       /\ pc' = "loop"
       /\ subArr' = NoArray
       /\ outputs' = outputs
       /\ index \notin outputs']_vars

C4_Witness ==
  /\ pc = "stitch"
  /\ ~chunkData.defined
  /\ frame.nChunksW * frame.nChunksH > 1
  /\ Len(regions) = 0
  /\ s + 1 < upscaleFactor

\* C5: a failing image never stops the batch: when the run is done every file was
\* attempted exactly once, in order, successCount is the number of successful
\* processImage calls and exactly those have an output file
C5_BatchIsolation ==
  /\ Len(results) = index
  /\ index <= nFiles
  /\ \A k \in 1..Len(attempts) : attempts[k] = k - 1
  /\ successCount = Cardinality({k \in 1..Len(results) : results[k]})
  /\ outputs = {k - 1 : k \in {m \in 1..Len(results) : results[m]}}
  /\ pc = "done" => Len(results) = nFiles /\ Len(attempts) = nFiles

C5_Witness ==
  /\ pc = "done"
  /\ nFiles = MaxFiles
  /\ results[1] = FALSE
  /\ \A k \in 2..nFiles : results[k] = TRUE
  /\ successCount = nFiles - 1

\* C6: a result whose shape is not (2*inW, 2*inH, 4) makes the conversion fail
\* before any of its values is written to the canvas
C6_ShapeChecked ==
  [][(pc = "stitch" /\ chunkData.defined
        /\ chunkData.dims # <<2 * tile.inW, 2 * tile.inH>>) =>
       /\ results' = Append(results, FALSE)
       /\ pc' = "loop"
       /\ outputs' = outputs]_vars

\* C7: when multiUpscale has returned, exactly upscaleFactor passes ran and the
\* canvas is (W * 2^N, H * 2^N); for N = 0 no inference call was made and the
\* input is returned unchanged
C7_Dimensions ==
  pc = "encode" =>
    /\ s = upscaleFactor
    /\ Len(doneTiles) = upscaleFactor
    /\ outArr.shape = <<imageArray.shape[1] * Pow2(upscaleFactor),
                        imageArray.shape[2] * Pow2(upscaleFactor)>>
    /\ calls >= upscaleFactor
    /\ upscaleFactor = 0 => calls = 0 /\ outArr = imageArray

C7_Witness ==
  /\ pc = "encode"
  /\ upscaleFactor = 1
  /\ imageArray.shape[1] > CHUNK_SIZE
  /\ s = 1
  /\ outArr.shape = <<2 * imageArray.shape[1], 2 * imageArray.shape[2]>>

\* tiles of pass k (from 0) of an image of the given shape
ExpectedTiles(shape, k) ==
  Ceil(shape[1] * Pow2(k), CHUNK_SIZE) * Ceil(shape[2] * Pow2(k), CHUNK_SIZE)

\* C8: while a tile of pass s >= 1 is extracted, in flight or stitched, every
\* earlier pass has stitched all of its tiles, and the pass works on the canvas
\* the previous pass returned
C8_PassBarrier ==
  (pc \in {"tile", "await", "stitch"} /\ s >= 1) =>
    /\ Len(doneTiles) = s
    /\ \A k \in 1..s : doneTiles[k] = ExpectedTiles(imageArray.shape, k - 1)
    /\ outArr.shape = <<imageArray.shape[1] * Pow2(s), imageArray.shape[2] * Pow2(s)>>
    /\ frame.inImgW = outArr.shape[1]
    /\ frame.inImgH = outArr.shape[2]

C8_Witness ==
  /\ pc = "await"
  /\ s = 1
  /\ doneTiles = <<2>>
  /\ tile.i + tile.j > 0

\* C9 as stated: for a 2000 wide image the grid is nChunksW = 2, chunkW = 1000;
\* tile (0,0) reads x in [0, 1032) and writes x in [0, 2000); tile (0,1) reads
\* x in [968, 2000) and writes x in [2000, 4000); the output is 4000 wide
C9_Example ==
  (TileValid /\ frame.inImgW = 2000 /\ tile.i = 0) =>
    /\ frame.nChunksW = 2
    /\ frame.chunkW = 1000
    /\ frame.outImgW = 4000
    /\ tile.j = 0 =>
         /\ tile.xStart = 0 /\ tile.xStart + tile.inW = 1032
         /\ OutRegion(tile).x2 = 0 /\ OutRegion(tile).x2 + OutRegion(tile).w2 = 2000
    /\ tile.j = 1 =>
         /\ tile.xStart = 968 /\ tile.xStart + tile.inW = 2000
         /\ OutRegion(tile).x2 = 2000 /\ OutRegion(tile).x2 + OutRegion(tile).w2 = 4000

\* C9 amended: as C9, but tile (0,0) reads x in [0, 1064): its input is
\* chunkW + 2 * PAD_SIZE wide although no padding is taken on the left
C9_ExampleAmended ==
  (TileValid /\ frame.inImgW = 2000 /\ tile.i = 0) =>
    /\ frame.nChunksW = 2
    /\ frame.chunkW = 1000
    /\ frame.outImgW = 4000
    /\ tile.j = 0 =>
         /\ tile.xStart = 0 /\ tile.xStart + tile.inW = 1064
         /\ OutRegion(tile).x2 = 0 /\ OutRegion(tile).x2 + OutRegion(tile).w2 = 2000
    /\ tile.j = 1 =>
         /\ tile.xStart = 968 /\ tile.xStart + tile.inW = 2000
         /\ OutRegion(tile).x2 = 2000 /\ OutRegion(tile).x2 + OutRegion(tile).w2 = 4000

C9_Witness ==
  /\ TileValid
  /\ <<frame.inImgW, frame.inImgH>> = ExampleDims
  /\ tile.i = 0
  /\ tile.j = 1
  /\ tile.xStart = 968

\* C10: the padded input region of every tile lies inside the source image and
\* contains the tile's unpadded region, so the crop window stays inside a result of
\* shape (2*inW, 2*inH)
C10_PaddedRegionInBounds ==
  TileValid =>
    /\ 0 <= tile.xStart /\ tile.inW >= 1 /\ tile.xStart + tile.inW <= frame.inImgW
    /\ 0 <= tile.yStart /\ tile.inH >= 1 /\ tile.yStart + tile.inH <= frame.inImgH
    /\ tile.xStart <= tile.x /\ 2 * tile.x + tile.outW <= 2 * (tile.xStart + tile.inW)
    /\ tile.yStart <= tile.y /\ 2 * tile.y + tile.outH <= 2 * (tile.yStart + tile.inH)
    /\ 2 * (tile.x - tile.xStart) + tile.outW <= 2 * tile.inW
    /\ 2 * (tile.y - tile.yStart) + tile.outH <= 2 * tile.inH

C10_Witness ==
  /\ TileValid
  /\ frame.nChunksW = 3
  /\ frame.nChunksH = 3
  /\ tile.i = 2
  /\ tile.j = 2
  /\ tile.xStart = tile.x - PAD_SIZE
  /\ tile.xStart + tile.inW = frame.inImgW
  /\ tile.inW < frame.chunkW + 2 * PAD_SIZE

====
